---- MODULE Spec2Model ----
(***************************************************************************)
(* Model of server.js: the Express handlers of the company / customer /    *)
(* student / food endpoints, their express-validator chains, the mariadb   *)
(* pool they lease connections from and the statements they send.          *)
(*                                                                         *)
(* Strings are sequences of one-character strings, so that trim, escape    *)
(* and the length rule are computed on them as validator.js computes them. *)
(* A JSON object (req.body, req.params) is a function whose domain is the  *)
(* set of the fields that are present.                                     *)
(***************************************************************************)
EXTENDS Integers, Sequences, FiniteSets, TLC

\* Number of requests the model serves in one run (they may overlap).
NReq == 2

----------------------------------------------------------------------------
(* Strings and the sanitizers / validators of the chains (server.js 82-84, *)
(* 150-154, 244-248, 397).                                                 *)

Whitespace == {" "}

RECURSIVE ltrim(_)
ltrim(s) ==
  IF s # <<>> /\ Head(s) \in Whitespace THEN ltrim(Tail(s)) ELSE s

RECURSIVE rtrim(_)
rtrim(s) ==
  IF s # <<>> /\ s[Len(s)] \in Whitespace
    THEN rtrim(SubSeq(s, 1, Len(s) - 1))
    ELSE s

\* .trim(): strips whitespace on both sides.
trim(s) == rtrim(ltrim(s))

\* The replacement validator.js escape() makes for one character.
escapeChar(c) ==
  CASE c = "&" -> <<"&", "a", "m", "p", ";">>
    [] c = "<" -> <<"&", "l", "t", ";">>
    [] c = ">" -> <<"&", "g", "t", ";">>
    [] c = "/" -> <<"&", "#", "x", "2", "F", ";">>
    [] OTHER   -> <<c>>

RECURSIVE escape(_)
\* .escape(): replaces the HTML-special characters by entities.
escape(s) == IF s = <<>> THEN <<>> ELSE escapeChar(Head(s)) \o escape(Tail(s))

\* Variant of isLength with the upper bound off by one.
isLengthOffByOne(s, min, max) == Len(s) >= min /\ Len(s) <= max + 1

\* .isLength({min, max}) on the current value of the field.
isLength(s, min, max) == Len(s) >= min /\ Len(s) <= max

\* An object with no field.
EmptyObject == [f \in {} |-> <<>>]

\* express-validator's toString() of a field: an absent (undefined) field
\* reads as the empty string.
toString(obj, f) == IF f \in DOMAIN obj THEN obj[f] ELSE <<>>

\* Writing a sanitized value back into the request object.
setField(obj, f, v) ==
  [g \in (DOMAIN obj) \cup {f} |-> IF g = f THEN v ELSE obj[g]]

\* SQL NULL, which the connector binds for an undefined parameter.
NULL == <<"NULL">>

\* The value bound to a `?` for a field of an object.
bound(obj, f) == IF f \in DOMAIN obj THEN obj[f] ELSE NULL

\* JavaScript truthiness of a field holding a string or undefined.
truthy(obj, f) == f \in DOMAIN obj /\ obj[f] # <<>>

\* One chain  <loc>(f).trim().isLength({min,max}).escape()  run on an object:
\* the sanitized object and the errors (at most one, of the one validator).
trimLengthEscape(obj, loc, f, min, max, msg) ==
  LET t == trim(toString(obj, f))
  IN  [obj    |-> setField(obj, f, escape(t)),
       errors |-> IF isLength(t, min, max)
                    THEN <<>>
                    ELSE << [location |-> loc, path |-> f, msg |-> msg] >>]

\* Variant of the chain without .escape().
trimLengthNoEscape(obj, loc, f, min, max, msg) ==
  LET t == trim(toString(obj, f))
  IN  [obj    |-> setField(obj, f, t),
       errors |-> IF isLength(t, min, max)
                    THEN <<>>
                    ELSE << [location |-> loc, path |-> f, msg |-> msg] >>]

\* Variant of the POST chains without .escape().
postCompanyValidatorsNoEscape(params, body) ==
  LET a == trimLengthNoEscape(body,  "body", "companyId",   1, 6,  "Invalid value")
      b == trimLengthNoEscape(a.obj, "body", "companyName", 1, 25, "Invalid value")
      c == trimLengthNoEscape(b.obj, "body", "companyCity", 1, 25, "Invalid value")
  IN  [params |-> params, body |-> c.obj,
       errors |-> a.errors \o b.errors \o c.errors]

\* The chains of POST /api/company, run in declaration order on req.body.
postCompanyValidators(params, body) ==
  LET a == trimLengthEscape(body,  "body", "companyId",   1, 6,  "Invalid value")
      b == trimLengthEscape(a.obj, "body", "companyName", 1, 25, "Invalid value")
      c == trimLengthEscape(b.obj, "body", "companyCity", 1, 25, "Invalid value")
  IN  [params |-> params, body |-> c.obj,
       errors |-> a.errors \o b.errors \o c.errors]

\* The chains of PATCH /api/company/:companyId.
patchCompanyValidators(params, body) ==
  LET a == trimLengthEscape(params, "params", "companyId",   1, 6,  "ID must be between 1 and 6 characters")
      b == trimLengthEscape(body,   "body",   "companyName", 1, 25, "Invalid value")
      c == trimLengthEscape(b.obj,  "body",   "companyCity", 1, 25, "Invalid value")
  IN  [params |-> a.obj, body |-> c.obj,
       errors |-> a.errors \o b.errors \o c.errors]

\* A chain with .optional(): an absent field is skipped.
optionalTrimLengthEscape(obj, loc, f, min, max, msg) ==
  IF f \in DOMAIN obj
    THEN trimLengthEscape(obj, loc, f, min, max, msg)
    ELSE [obj |-> obj, errors |-> <<>>]

\* Variant of the PUT chains with .optional() on both attributes.
putCompanyValidatorsOptional(params, body) ==
  LET a == trimLengthEscape(params, "params", "companyId",   1, 6,  "ID must be between 1 and 6 characters")
      b == optionalTrimLengthEscape(body,  "body", "companyName", 1, 25, "Invalid value")
      c == optionalTrimLengthEscape(b.obj, "body", "companyCity", 1, 25, "Invalid value")
  IN  [params |-> a.obj, body |-> c.obj,
       errors |-> a.errors \o b.errors \o c.errors]

\* The chains of PUT /api/company/:companyId.
putCompanyValidators(params, body) ==
  LET a == trimLengthEscape(params, "params", "companyId",   1, 6,  "ID must be between 1 and 6 characters")
      b == trimLengthEscape(body,   "body",   "companyName", 1, 25, "Invalid value")
      c == trimLengthEscape(b.obj,  "body",   "companyCity", 1, 25, "Invalid value")
  IN  [params |-> a.obj, body |-> c.obj,
       errors |-> a.errors \o b.errors \o c.errors]

\* The chain of DELETE /api/customers/:custCode: isLength only, no sanitizer.
deleteCustomerValidators(params, body) ==
  LET v == toString(params, "custCode")
  IN  [params |-> params, body |-> body,
       errors |-> IF isLength(v, 6, 6)
                    THEN <<>>
                    ELSE << [location |-> "params", path |-> "custCode",
                             msg |-> "Customer code must be 6 characters long"] >>]

\* The chain of GET /say on req.query (held in the request's params):
\*   query('keyword').exists().isString().escape().trim().isLength({1, 100})
\* No validator bails: each one that fails adds its entry.
sayValidators(params, body) ==
  LET there == "keyword" \in DOMAIN params
      v     == trim(escape(toString(params, "keyword")))
      err(msg) == << [location |-> "query", path |-> "keyword", msg |-> msg] >>
  IN  [params |-> setField(params, "keyword", v), body |-> body,
       errors |->
            (IF there THEN <<>> ELSE err("keyword query parameter is missing"))
         \o (IF there THEN <<>> ELSE err("Keyword must be a string"))
         \o (IF isLength(v, 1, 100) THEN <<>>
             ELSE err("Keyword length must be between 1 and 100 characters"))]

\* The list endpoints declare no chain.
noValidators(params, body) ==
  [params |-> params, body |-> body, errors |-> <<>>]

----------------------------------------------------------------------------
(* The store: what MariaDB does with each statement the handlers send.     *)
(* company has COMPANY_ID as its unique key (the upsert statement relies   *)
(* on it); a table is the set of its rows.                                 *)

\* mariadb.createPool() is given no foundRows option, so the connector's
\* default applies: affectedRows counts the rows matched, not the rows changed.
foundRows == TRUE

\* createPool({connectionsLimit: 100}), line 16: the ceiling on leased
\* connections as the source configures it.
connectionsLimit == 100

companyRow(id, name, city) ==
  [COMPANY_ID |-> id, COMPANY_NAME |-> name, COMPANY_CITY |-> city]

hasKey(tbl, id) == \E row \in tbl : row.COMPANY_ID = id

\* INSERT INTO company (...) VALUES (?, ?, ?)
InsertCompany(tbl, id, name, city) ==
  IF hasKey(tbl, id)
    THEN [error |-> TRUE,  table |-> tbl, affectedRows |-> 0, warningStatus |-> 0]
    ELSE [error |-> FALSE, table |-> tbl \cup {companyRow(id, name, city)},
          affectedRows |-> 1, warningStatus |-> 0]

\* UPDATE company SET <cols> WHERE COMPANY_ID = ?   (cols: column -> value);
\* with no column the statement text is not SQL and the store rejects it.
UpdateCompany(tbl, cols, id) ==
  LET new(row) == [c \in DOMAIN row |-> IF c \in DOMAIN cols THEN cols[c] ELSE row[c]]
      matched  == {row \in tbl : row.COMPANY_ID = id}
      changed  == {row \in matched : new(row) # row}
  IN  IF DOMAIN cols = {}
        THEN [error |-> TRUE, table |-> tbl, affectedRows |-> 0, warningStatus |-> 0]
        ELSE
      [error |-> FALSE,
       table |-> (tbl \ matched) \cup {new(row) : row \in matched},
       affectedRows |-> IF foundRows THEN Cardinality(matched) ELSE Cardinality(changed),
       warningStatus |-> 0]

\* Variant of the upsert that always inserts (no ON DUPLICATE KEY clause
\* taking effect).
UpsertCompanyAlwaysInsert(tbl, id, name, city, name2, city2) ==
  [error |-> FALSE, table |-> tbl \cup {companyRow(id, name, city)},
   affectedRows |-> 1, warningStatus |-> 0]

\* INSERT INTO company (...) VALUES (?, ?, ?)
\*   ON DUPLICATE KEY UPDATE COMPANY_NAME = ?, COMPANY_CITY = ?
\* affectedRows: 1 for an insert, 2 for an update that changes the row; for an
\* update that leaves the row as it is, 1 with foundRows and 0 without.
UpsertCompany(tbl, id, name, city, name2, city2) ==
  IF ~hasKey(tbl, id)
    THEN [error |-> FALSE, table |-> tbl \cup {companyRow(id, name, city)},
          affectedRows |-> 1, warningStatus |-> 0]
    ELSE LET old == CHOOSE row \in tbl : row.COMPANY_ID = id
             new == [old EXCEPT !.COMPANY_NAME = name2, !.COMPANY_CITY = city2]
         IN  [error |-> FALSE, table |-> (tbl \ {old}) \cup {new},
              affectedRows |-> IF new # old THEN 2 ELSE IF foundRows THEN 1 ELSE 0,
              warningStatus |-> 0]

\* DELETE FROM customer WHERE CUST_CODE = ?
DeleteCustomer(tbl, code) ==
  LET matched == {row \in tbl : row.CUST_CODE = code}
  IN  [error |-> FALSE, table |-> tbl \ matched,
       affectedRows |-> Cardinality(matched), warningStatus |-> 0]

----------------------------------------------------------------------------
(* State.                                                                  *)

VARIABLES
  company,   \* the company table: a set of rows
  customer,  \* the customer table: a set of rows
  req,       \* the requests received so far, in order of arrival
  leased     \* connections of the pool that are leased and not released

vars == <<company, customer, req, leased>>

Reqs == 1..Len(req)

\* Strings the requests are built from.
C1       == <<"C", "1">>
C1Padded == <<" ", "C", "1">>
Id7      == <<"A", "B", "C", "D", "E", "F", "G">>
Ac       == <<"A", "c">>
AAmp     == <<"A", "&">>
AmpAmp   == <<"&", "&">>
Bo       == <<"B", "o">>
NY       == <<"N", "Y">>
LA       == <<"L", "A">>
Long26   == [i \in 1..(25 + 1) |-> "x"]
CUST01   == <<"C", "U", "S", "T", "0", "1">>
CUST02   == <<"C", "U", "S", "T", "0", "2">>
CUST99   == <<"C", "U", "S", "T", "9", "9">>
AB       == <<"A", "B">>

\* The requests a client sends: [kind, params, body].
PostRequests ==
  { [kind |-> "POST", params |-> EmptyObject, body |-> b] : b \in
      { [companyId |-> C1,       companyName |-> Ac,   companyCity |-> NY],
        [companyId |-> C1Padded, companyName |-> AAmp, companyCity |-> NY],
        [companyId |-> Id7,      companyName |-> Ac,   companyCity |-> NY],
        [companyId |-> C1,       companyCity |-> NY],
        [companyId |-> AmpAmp,   companyName |-> Ac,   companyCity |-> NY] } }

PatchRequests ==
  { [kind |-> "PATCH", params |-> [companyId |-> C1], body |-> b] : b \in
      { [companyName |-> Bo, companyCity |-> LA],
        [companyName |-> Bo],
        [companyCity |-> LA],
        EmptyObject,
        [companyName |-> Long26, companyCity |-> LA] } }

PutRequests ==
  { [kind |-> "PUT", params |-> [companyId |-> C1], body |-> b] : b \in
      { [companyName |-> Ac, companyCity |-> NY],
        [companyName |-> Bo, companyCity |-> LA],
        [companyName |-> Ac],
        EmptyObject } }
  \cup { [kind |-> "PUT", params |-> [companyId |-> Id7],
          body |-> [companyName |-> Ac, companyCity |-> NY]] }

DeleteRequests ==
  { [kind |-> "DELETE", params |-> [custCode |-> c], body |-> EmptyObject] :
      c \in {CUST01, CUST99, AB} }

ListRequests ==
  { [kind |-> k, params |-> EmptyObject, body |-> EmptyObject] :
      k \in {"GET customers", "GET students", "GET foods"} }

\* GET /say?keyword=...: params holds the query string.
SayRequests ==
  { [kind |-> "GET say", params |-> p, body |-> EmptyObject] :
      p \in { [keyword |-> <<"h", "i">>], EmptyObject } }

Requests ==
  PostRequests \cup PatchRequests \cup PutRequests \cup DeleteRequests
    \cup ListRequests \cup SayRequests

Init ==
  /\ company  = { companyRow(<<"Z", "9">>, <<"Z", "e", "d">>, LA) }
  /\ customer = { [CUST_CODE |-> CUST01, CUST_NAME |-> <<"A", "l">>],
                  [CUST_CODE |-> CUST02, CUST_NAME |-> <<"B", "e">>] }
  /\ req      = <<>>
  /\ leased   = 0

----------------------------------------------------------------------------
(* The handlers.  A request is a record:                                   *)
(*   kind, raw      the endpoint and the params/body as sent               *)
(*   params, body   req.params and req.body after the chains ran           *)
(*   errors         validationResult(req).array()                          *)
(*   pc             "connecting": awaiting connectToDatabase()             *)
(*                  "querying":   awaiting connection.query()              *)
(*                  "calling":    awaiting axios.get() of the function     *)
(*                  "done":       the handler has ended                    *)
(*   conn           the handler holds a leased connection                  *)
(*   releases       how many times release() ran on it                     *)
(*   executed       a statement of this request ran in the store           *)
(*   existed        the statement's key matched a row when it ran          *)
(*   peers          the requests in flight when the statement ran          *)
(*   fault          the pool or the store was unavailable to this request  *)
(*   status, reply  the response sent (status 0: none sent)                *)
(*   errorsSent     the errors array of a 400 response                     *)
(*   threw          the handler ended with an uncaught exception           *)

validators(kind, params, body) ==
  CASE kind = "POST"   -> postCompanyValidators(params, body)
    [] kind = "PATCH"  -> patchCompanyValidators(params, body)
    [] kind = "PUT"    -> putCompanyValidators(params, body)
    [] kind = "DELETE" -> deleteCustomerValidators(params, body)
    [] kind = "GET say" -> sayValidators(params, body)
    [] OTHER           -> noValidators(params, body)

\* res.status(s).json(...) followed by the handler returning without release.
respond(q, s, text) ==
  [q EXCEPT !.pc = "done", !.status = s, !.reply = text]

\* Variant that sends only the first error.
respondFirstError(q) ==
  [respond(q, 400, "errors") EXCEPT !.errorsSent = <<q.errors[1]>>]

\* return res.status(400).json({ errors: errors.array() })
respondErrors(q) ==
  [respond(q, 400, "errors") EXCEPT !.errorsSent = q.errors]

\* res.status(s).json(...) inside the try, then `finally { release() }`.
respondAndRelease(q, s, text) ==
  [q EXCEPT !.pc = "done", !.status = s, !.reply = text,
            !.conn = FALSE, !.releases = @ + 1]

\* GET /say, lines 431-437: the handler checks the errors at once, and
\* otherwise suspends at `await axios.get(...)`.
sayEntered(q) ==
  IF q.errors # <<>> THEN respondErrors(q)
  ELSE [q EXCEPT !.pc = "calling"]

\* Express runs the chains, then calls the handler, which suspends at
\* `await connectToDatabase()` (for the list endpoints, inside the try);
\* the /say handler uses no connection.
Receive(m) ==
  /\ Len(req) < NReq
  /\ LET v == validators(m.kind, m.params, m.body)
         entered(q) == IF q.kind = "GET say" THEN sayEntered(q) ELSE q
     IN  req' = Append(req, entered(
           [kind |-> m.kind, raw |-> [params |-> m.params, body |-> m.body],
            params |-> v.params, body |-> v.body, errors |-> v.errors,
            pc |-> "connecting", conn |-> FALSE, releases |-> 0,
            executed |-> FALSE, existed |-> FALSE, peers |-> {}, fault |-> FALSE,
            status |-> 0, reply |-> "", errorsSent |-> <<>>,
            threw |-> FALSE]))
  /\ UNCHANGED <<company, customer, leased>>

\* --- the handlers resumed with a connection (lines 87-94, 157-171, 251-259,
\* 399-405, 303-304): everything up to the next await.

postCompanyConnected(q) ==
  IF q.errors # <<>> THEN respondErrors(q)
  ELSE [q EXCEPT !.pc = "querying"]

\* Variant of the PATCH handler with neither check before the query.
patchCompanyUnchecked(q) == [q EXCEPT !.pc = "querying"]

patchCompanyConnected(q) ==
  IF q.errors # <<>> THEN respondErrors(q)
  ELSE IF ~truthy(q.body, "companyName") /\ ~truthy(q.body, "companyCity")
    THEN respond(q, 400, "Provide at least one field to update (companyName or companyCity)")
  ELSE [q EXCEPT !.pc = "querying"]

putCompanyConnected(q) ==
  IF q.errors # <<>> THEN respondErrors(q)
  ELSE [q EXCEPT !.pc = "querying"]

deleteCustomerConnected(q) ==
  IF q.errors # <<>> THEN respondErrors(q)
  ELSE [q EXCEPT !.pc = "querying"]

listConnected(q) == [q EXCEPT !.pc = "querying"]

connected(q) ==
  CASE q.kind = "POST"   -> postCompanyConnected(q)
    [] q.kind = "PATCH"  -> patchCompanyConnected(q)
    [] q.kind = "PUT"    -> putCompanyConnected(q)
    [] q.kind = "DELETE" -> deleteCustomerConnected(q)
    [] OTHER             -> listConnected(q)

IsList(q) == q.kind \in {"GET customers", "GET students", "GET foods"}

\* pool.getConnection() resolves: the pool leases a connection and the handler
\* runs on to its response or to its query.
Connected(r) ==
  /\ r \in Reqs
  /\ req[r].pc = "connecting"
  /\ leased < connectionsLimit
  /\ leased' = leased + 1
  /\ req' = [req EXCEPT ![r] = connected([req[r] EXCEPT !.conn = TRUE])]
  /\ UNCHANGED <<company, customer>>

\* pool.getConnection() rejects (pool error, acquisition timeout):
\* connectToDatabase() throws Error('Internal server error').  The list
\* handlers catch it, answer 500, and their finally calls release() on the
\* undefined req.db, which throws.  The other handlers await it outside any
\* try: the handler's promise rejects and no response is sent.
ConnectFailed(r) ==
  /\ r \in Reqs
  /\ req[r].pc = "connecting"
  /\ req' = [req EXCEPT ![r] =
       IF IsList(@)
         THEN [@ EXCEPT !.pc = "done", !.fault = TRUE, !.threw = TRUE,
                        !.status = 500, !.reply = "Internal server error"]
         ELSE [@ EXCEPT !.pc = "done", !.fault = TRUE, !.threw = TRUE]]
  /\ UNCHANGED <<company, customer, leased>>

\* --- the handlers resumed with the store's answer: reconcile, respond,
\* and release in the finally block.

\* POST /api/company, lines 96-107.
postCompanyQueried(q, result) ==
  IF result.error THEN respondAndRelease(q, 500, "Server error")
  ELSE respondAndRelease(q, 201, "Company successfully added")

\* PATCH: the SET clause built from the fields that are truthy, lines 174-184.
patchUpdateFields(body) ==
  [c \in {col \in {"COMPANY_NAME", "COMPANY_CITY"} :
            truthy(body, IF col = "COMPANY_NAME" THEN "companyName" ELSE "companyCity")}
     |-> IF c = "COMPANY_NAME" THEN body.companyName ELSE body.companyCity]

\* Variant of the PATCH reconciler without the affectedRows test.
patchCompanyQueriedNo404(q, result) ==
  IF result.error THEN respondAndRelease(q, 500, "Server error")
  ELSE respondAndRelease(q, 200, "Company updated successfully")

\* PATCH /api/company/:companyId, lines 190-201.
patchCompanyQueried(q, result) ==
  IF result.error THEN respondAndRelease(q, 500, "Server error")
  ELSE IF result.affectedRows = 0 THEN respondAndRelease(q, 404, "Company not found")
  ELSE respondAndRelease(q, 200, "Company updated successfully")

\* PUT /api/company/:companyId, lines 267-277.
putCompanyQueried(q, result) ==
  IF result.error THEN respondAndRelease(q, 500, "Server error")
  ELSE IF result.affectedRows = 1 /\ result.warningStatus = 0
    THEN respondAndRelease(q, 201, "Company added")
  ELSE respondAndRelease(q, 200, "Company updated")

\* Variant of the DELETE reconciler without the affectedRows test.
deleteCustomerQueriedNo404(q, result) ==
  IF result.error THEN respondAndRelease(q, 500, "Internal server error")
  ELSE respondAndRelease(q, 200, "Customer deleted successfully")

\* DELETE /api/customers/:custCode, lines 409-418.
deleteCustomerQueried(q, result) ==
  IF result.error THEN respondAndRelease(q, 500, "Internal server error")
  ELSE IF result.affectedRows = 0 THEN respondAndRelease(q, 404, "Customer not found")
  ELSE respondAndRelease(q, 200, "Customer deleted successfully")

Querying(r, kind) == r \in Reqs /\ req[r].pc = "querying" /\ req[r].kind = kind

\* The other requests that are in flight (received, handler not ended).
InFlight(r) == {o \in Reqs \ {r} : req[o].pc # "done"}

ran(q, existed, peers) ==
  [q EXCEPT !.executed = TRUE, !.existed = existed, !.peers = peers]

PostQuery(r) ==
  /\ Querying(r, "POST")
  /\ LET b      == req[r].body
         result == InsertCompany(company, bound(b, "companyId"),
                                 bound(b, "companyName"), bound(b, "companyCity"))
     IN  /\ company' = result.table
         /\ req' = [req EXCEPT ![r] =
               postCompanyQueried(
                 ran(@, hasKey(company, bound(b, "companyId")), InFlight(r)), result)]
  /\ leased' = leased - 1
  /\ UNCHANGED customer

PatchQuery(r) ==
  /\ Querying(r, "PATCH")
  /\ LET id     == req[r].params.companyId
         result == UpdateCompany(company, patchUpdateFields(req[r].body), id)
     IN  /\ company' = result.table
         /\ req' = [req EXCEPT ![r] =
               patchCompanyQueried(ran(@, hasKey(company, id), InFlight(r)), result)]
  /\ leased' = leased - 1
  /\ UNCHANGED customer

PutQuery(r) ==
  /\ Querying(r, "PUT")
  /\ LET id     == req[r].params.companyId
         b      == req[r].body
         result == UpsertCompany(company, id,
                                 bound(b, "companyName"), bound(b, "companyCity"),
                                 bound(b, "companyName"), bound(b, "companyCity"))
     IN  /\ company' = result.table
         /\ req' = [req EXCEPT ![r] =
               putCompanyQueried(ran(@, hasKey(company, id), InFlight(r)), result)]
  /\ leased' = leased - 1
  /\ UNCHANGED customer

DeleteQuery(r) ==
  /\ Querying(r, "DELETE")
  /\ LET code   == req[r].params.custCode
         result == DeleteCustomer(customer, code)
     IN  /\ customer' = result.table
         /\ req' = [req EXCEPT ![r] =
               deleteCustomerQueried(
                 ran(@, \E row \in customer : row.CUST_CODE = code, InFlight(r)), result)]
  /\ leased' = leased - 1
  /\ UNCHANGED company

\* GET /api/customers, /api/students, /api/foods, lines 301-377: a SELECT of
\* the name column, answered as a list.
ListQuery(r) ==
  /\ r \in Reqs /\ req[r].pc = "querying" /\ IsList(req[r])
  /\ req' = [req EXCEPT ![r] = respondAndRelease(ran(@, FALSE, InFlight(r)), 200, "list")]
  /\ leased' = leased - 1
  /\ UNCHANGED <<company, customer>>

\* connection.query() rejects for a reason of the store's own (server gone,
\* connection lost): the catch block answers 500, the finally releases.
QueryFailed(r) ==
  /\ r \in Reqs /\ req[r].pc = "querying"
  /\ req' = [req EXCEPT ![r] =
       respondAndRelease([@ EXCEPT !.fault = TRUE], 500,
         IF @.kind \in {"POST", "PATCH", "PUT"} THEN "Server error"
                                               ELSE "Internal server error")]
  /\ leased' = leased - 1
  /\ UNCHANGED <<company, customer>>

\* axios.get() resolves: res.status(200).json({response: response.data}).
SayResponded(r) ==
  /\ r \in Reqs /\ req[r].pc = "calling"
  /\ req' = [req EXCEPT ![r] = respond(@, 200, "response")]
  /\ UNCHANGED <<company, customer, leased>>

\* Variant of the catch block that answers 502.
SayFailedAnswered(r) ==
  /\ r \in Reqs /\ req[r].pc = "calling"
  /\ req' = [req EXCEPT ![r] =
       respond([@ EXCEPT !.fault = TRUE], 502, "Upstream error")]
  /\ UNCHANGED <<company, customer, leased>>

\* axios.get() rejects: the catch block logs and sends nothing.
SayFailed(r) ==
  /\ r \in Reqs /\ req[r].pc = "calling"
  /\ req' = [req EXCEPT ![r] = [@ EXCEPT !.pc = "done", !.fault = TRUE]]
  /\ UNCHANGED <<company, customer, leased>>

Next ==
  \/ \E m \in Requests : Receive(m)
  \/ \E r \in Reqs : Connected(r)
  \/ \E r \in Reqs : ConnectFailed(r)
  \/ \E r \in Reqs : PostQuery(r)
  \/ \E r \in Reqs : PatchQuery(r)
  \/ \E r \in Reqs : PutQuery(r)
  \/ \E r \in Reqs : DeleteQuery(r)
  \/ \E r \in Reqs : ListQuery(r)
  \/ \E r \in Reqs : QueryFailed(r)
  \/ \E r \in Reqs : SayResponded(r)
  \/ \E r \in Reqs : SayFailed(r)

Spec == Init /\ [][Next]_vars

----------------------------------------------------------------------------
(* Properties.                                                             *)

Done(q)     == q.pc = "done"
Acquired(q) == q.conn \/ q.releases > 0
Has(obj, f) == f \in DOMAIN obj
InRange(s, min, max) == min <= Len(s) /\ Len(s) <= max

\* C1: with valid input and no store fault, a PUT whose key was absent when
\* the upsert ran answers 201 "Company added", and a PUT whose key was
\* already present (whatever the values, identical ones included) answers
\* 200 "Company updated".
C1_UpsertAddedThenUpdated ==
  \A r \in Reqs :
    LET q == req[r] IN
    (q.kind = "PUT" /\ Done(q) /\ q.executed /\ ~q.fault) =>
      IF q.existed THEN q.status = 200 /\ q.reply = "Company updated"
                   ELSE q.status = 201 /\ q.reply = "Company added"

\* C2: a request that acquired a connection and has ended has released it
\* exactly once, on every exit path.
C2_ReleasedExactlyOnce ==
  \A r \in Reqs :
    LET q == req[r] IN
    (Done(q) /\ Acquired(q)) => (q.releases = 1 /\ ~q.conn)

\* C3: a request rejected by validation (400 with the errors list) never
\* acquired a connection.
C3_RejectedBeforeAcquire ==
  \A r \in Reqs :
    LET q == req[r] IN
    (q.kind \in {"POST", "PATCH", "PUT", "DELETE"} /\ q.errors # <<>>
       /\ Done(q) /\ q.status = 400)
      => ~Acquired(q)

\* A PATCH that supplies exactly one attribute, valid, with a valid id.
PatchOneField(q) ==
  /\ q.kind = "PATCH"
  /\ InRange(trim(q.raw.params.companyId), 1, 6)
  /\ \E f \in {"companyName", "companyCity"} :
       /\ DOMAIN q.raw.body = {f}
       /\ InRange(trim(q.raw.body[f]), 1, 25)

\* C4: a PATCH with exactly one of companyName / companyCity supplied (valid)
\* and the other absent is accepted: its UPDATE runs and, on an existing key,
\* it answers 200.
C4_PatchOneFieldAccepted ==
  \A r \in Reqs :
    LET q == req[r] IN
    (PatchOneField(q) /\ Done(q) /\ ~q.fault) =>
      (q.status # 400 /\ q.executed /\ (q.existed => q.status = 200))

\* A PUT with a valid id in which companyName or companyCity is absent and
\* the attribute that is there is valid.
PutAttributeAbsent(q) ==
  /\ q.kind = "PUT"
  /\ InRange(trim(q.raw.params.companyId), 1, 6)
  /\ ~Has(q.raw.body, "companyName") \/ ~Has(q.raw.body, "companyCity")
  /\ \A f \in DOMAIN q.raw.body : InRange(trim(q.raw.body[f]), 1, 25)

\* C5 (as claimed): a PUT with a valid id and an attribute absent from the
\* body is not rejected: it runs the upsert and answers 200 or 201, never 400.
C5_PutAttributesOptional ==
  \A r \in Reqs :
    LET q == req[r] IN
    (PutAttributeAbsent(q) /\ Done(q) /\ ~q.fault) =>
      (q.executed /\ q.status \in {200, 201})

\* C5 (amended): a PUT with a valid id and companyName or companyCity absent
\* from the body is rejected by validation: no upsert runs for it and, when
\* it is answered, the answer is 400 with the errors list.
C5_PutAbsentAttributeRejected ==
  \A r \in Reqs :
    LET q == req[r] IN
    PutAttributeAbsent(q) =>
      /\ ~q.executed
      /\ q.pc # "querying"
      /\ (Done(q) /\ ~q.fault) => (q.status = 400 /\ q.reply = "errors")

C5_Witness ==
  \E r \in Reqs :
    /\ PutAttributeAbsent(req[r])
    /\ DOMAIN req[r].raw.body = {"companyName"}
    /\ Done(req[r]) /\ req[r].status = 400

\* C6: a PATCH with neither companyName nor companyCity in its body runs no
\* statement and, when it is answered, the answer is 400.
C6_PatchNoFieldsRejected ==
  \A r \in Reqs :
    LET q == req[r] IN
    (q.kind = "PATCH" /\ DOMAIN q.raw.body = {}) =>
      /\ ~q.executed
      /\ q.pc # "querying"
      /\ (Done(q) /\ ~q.fault) => q.status = 400

C6_Witness ==
  \E r \in Reqs :
    /\ req[r].kind = "PATCH" /\ DOMAIN req[r].raw.body = {}
    /\ Done(req[r]) /\ req[r].status = 400 /\ ~req[r].executed

\* C7: the UPDATE of a valid PATCH whose key matches no row answers 404 and
\* leaves the company table as it was.
C7_PatchUnknownKeyNotFound ==
  [][\A r \in Reqs :
       (PatchQuery(r) /\ ~hasKey(company, req[r].params.companyId)) =>
         /\ company' = company
         /\ req'[r].status = 404
         /\ req'[r].reply = "Company not found"]_vars

C7_Witness ==
  \E r \in Reqs :
    /\ req[r].kind = "PATCH" /\ Done(req[r])
    /\ req[r].executed /\ ~req[r].existed
    /\ req[r].status = 404

\* C8: the DELETE of a 6-character code answers 404 and leaves the customer
\* table unchanged when no row has the code; removes the one row that has it,
\* and no other, and answers 200 when a row has it.  No step adds a customer
\* row, so a later DELETE of the same code answers 404.
C8_DeleteByCode ==
  [][/\ customer' \subseteq customer
     /\ \A r \in Reqs :
          DeleteQuery(r) =>
            LET code == req[r].params.custCode
                rows == {row \in customer : row.CUST_CODE = code}
            IN  /\ Len(code) = 6
                /\ customer' = customer \ rows
                /\ IF rows = {}
                     THEN req'[r].status = 404
                     ELSE Cardinality(rows) = 1 /\ req'[r].status = 200]_vars

C8_Witness ==
  \E r1, r2 \in Reqs :
    /\ r1 # r2
    /\ req[r1].kind = "DELETE" /\ req[r2].kind = "DELETE"
    /\ req[r1].params.custCode = req[r2].params.custCode
    /\ req[r1].status = 200 /\ req[r2].status = 404
    /\ Cardinality(customer) = 1

\* The request breaks a field rule: a company field that is there and whose
\* trimmed length is out of range, or a custCode that has not 6 characters.
ViolatesRule(q) ==
  \/ /\ q.kind = "POST"
     /\ Has(q.raw.body, "companyId") /\ ~InRange(trim(q.raw.body.companyId), 1, 6)
  \/ /\ q.kind \in {"PATCH", "PUT"}
     /\ ~InRange(trim(q.raw.params.companyId), 1, 6)
  \/ /\ q.kind \in {"POST", "PATCH", "PUT"}
     /\ \E f \in {"companyName", "companyCity"} :
          Has(q.raw.body, f) /\ ~InRange(trim(q.raw.body[f]), 1, 25)
  \/ /\ q.kind = "DELETE"
     /\ Len(q.raw.params.custCode) # 6

\* C9: a request that breaks a field rule runs no statement and, when it is
\* answered, the answer is 400.
C9_InvalidInputRejected ==
  \A r \in Reqs :
    LET q == req[r] IN
    ViolatesRule(q) =>
      /\ ~q.executed
      /\ q.pc # "querying"
      /\ (Done(q) /\ ~q.fault) => (q.status = 400 /\ q.reply = "errors")

C9_Witness ==
  \E r1, r2 \in Reqs :
    /\ req[r1].kind = "POST" /\ Len(req[r1].raw.body.companyId) = 7
    /\ req[r1].status = 400
    /\ req[r2].kind = "DELETE" /\ Len(req[r2].raw.params.custCode) = 2
    /\ req[r2].status = 400

\* C10 (as claimed): a valid POST whose key is absent answers 201 and adds
\* the row of the submitted companyId, companyName and companyCity; one whose
\* statement fails answers 500 and leaves the rows as they were.
C10_PostStoresSubmitted ==
  [][\A r \in Reqs :
       LET b == req[r].raw.body IN
       /\ PostQuery(r) =>
            IF hasKey(company, req[r].body.companyId)
              THEN req'[r].status = 500 /\ company' = company
              ELSE /\ req'[r].status = 201
                   /\ company' = company \cup
                        {companyRow(b.companyId, b.companyName, b.companyCity)}
       /\ (QueryFailed(r) /\ req[r].kind = "POST") =>
            (req'[r].status = 500 /\ company' = company)]_vars

\* C10 (amended): a valid POST whose key is absent answers 201 and adds
\* exactly one row, holding the submitted companyId, companyName and
\* companyCity each trimmed and then HTML-escaped; one whose statement fails
\* (the key exists, or the store is down) answers 500 and leaves the rows as
\* they were.
C10_PostStoresNormalized ==
  [][\A r \in Reqs :
       LET b    == req[r].raw.body
           id   == escape(trim(b.companyId))
           name == escape(trim(b.companyName))
           city == escape(trim(b.companyCity))
       IN
       /\ PostQuery(r) =>
            IF hasKey(company, id)
              THEN req'[r].status = 500 /\ company' = company
              ELSE /\ req'[r].status = 201
                   /\ company' = company \cup {companyRow(id, name, city)}
                   /\ Cardinality({row \in company' : row.COMPANY_ID = id}) = 1
       /\ (QueryFailed(r) /\ req[r].kind = "POST") =>
            (req'[r].status = 500 /\ company' = company)]_vars

C10_Witness ==
  \E r \in Reqs :
    /\ req[r].kind = "POST" /\ req[r].status = 201
    /\ req[r].raw.body.companyId = C1Padded
    /\ req[r].raw.body.companyName = AAmp
    /\ companyRow(C1, <<"A", "&", "a", "m", "p", ";">>, NY) \in company

StoreBacked(q) ==
  q.kind \in {"POST", "PATCH", "PUT", "DELETE",
              "GET customers", "GET students", "GET foods"}

\* C11: a store-backed request whose connection could not be acquired is
\* answered 500 and its handler ends without an uncaught exception.
C11_PoolFailureAnswered500 ==
  \A r \in Reqs :
    LET q == req[r] IN
    (StoreBacked(q) /\ Done(q) /\ q.fault /\ ~Acquired(q)) =>
      (q.status = 500 /\ ~q.threw)

\* C17: when every request received has ended, no connection of the pool
\* is leased.
C17_NoLeaseWhenIdle ==
  (\A r \in Reqs : Done(req[r])) => leased = 0

\* The field paths of the rules a request breaks, in declaration order,
\* worked out from the request as sent.
Broken(obj, f, min, max) ==
  IF InRange(trim(IF Has(obj, f) THEN obj[f] ELSE <<>>), min, max)
    THEN <<>> ELSE <<f>>

ExpectedPaths(q) ==
  CASE q.kind = "POST" ->
         Broken(q.raw.body, "companyId", 1, 6)
           \o Broken(q.raw.body, "companyName", 1, 25)
           \o Broken(q.raw.body, "companyCity", 1, 25)
    [] q.kind \in {"PATCH", "PUT"} ->
         Broken(q.raw.params, "companyId", 1, 6)
           \o Broken(q.raw.body, "companyName", 1, 25)
           \o Broken(q.raw.body, "companyCity", 1, 25)
    [] q.kind = "DELETE" ->
         IF Len(q.raw.params.custCode) = 6 THEN <<>> ELSE <<"custCode">>
    [] q.kind = "GET say" ->
         IF Has(q.raw.params, "keyword")
           THEN IF InRange(trim(escape(q.raw.params.keyword)), 1, 100)
                  THEN <<>> ELSE <<"keyword">>
           \* exists, isString and isLength all fail
           ELSE <<"keyword", "keyword", "keyword">>
    [] OTHER -> <<>>

\* C12: the errors of a request are one entry per broken rule, in field
\* declaration order; a request that gets its answer is rejected with 400
\* iff that list is non-empty; and the 400 response carries the whole list.
C12_CollectAll ==
  \A r \in Reqs :
    LET q == req[r] IN
    /\ [i \in 1..Len(q.errors) |-> q.errors[i].path] = ExpectedPaths(q)
    /\ (Done(q) /\ ~q.fault) => (q.status = 400 <=> q.errors # <<>>)
    /\ q.status = 400 => (q.reply = "errors" /\ q.errorsSent = q.errors)

C12_Witness ==
  \E r \in Reqs :
    /\ req[r].kind = "PATCH" /\ req[r].status = 400
    /\ Len(req[r].errorsSent) = 2
    /\ req[r].errorsSent[1].path = "companyName"
    /\ req[r].errorsSent[2].path = "companyCity"

\* C13: the company table never holds two rows with one COMPANY_ID, and the
\* upsert of a PUT on an existing key replaces that one row by a row of the
\* same key: the number of rows and every other row stay as they were.
C13_KeyUniqueUpsertFrame ==
  /\ [](\A a, b \in company : a.COMPANY_ID = b.COMPANY_ID => a = b)
  /\ [][\A r \in Reqs :
          (PutQuery(r) /\ hasKey(company, req[r].params.companyId)) =>
            \E old \in company, new \in company' :
              /\ old.COMPANY_ID = req[r].params.companyId
              /\ new.COMPANY_ID = old.COMPANY_ID
              /\ new.COMPANY_NAME = req[r].body.companyName
              /\ new.COMPANY_CITY = req[r].body.companyCity
              /\ company' \ {new} = company \ {old}
              /\ Cardinality(company') = Cardinality(company)]_vars

C13_Witness ==
  /\ \E r \in Reqs :
       /\ req[r].kind = "PUT" /\ Done(req[r])
       /\ req[r].executed /\ req[r].existed /\ req[r].status = 200
       /\ companyRow(C1, Bo, LA) \in company
  /\ companyRow(<<"Z", "9">>, <<"Z", "e", "d">>, LA) \in company
  /\ Cardinality(company) = 2

\* C14: a GET /say with a valid keyword answers 200 with the upstream body
\* under `response` when the call succeeds; when the call fails it sends no
\* response, and a handler that has ended never sends one later.
C14_SayProxy ==
  /\ [](\A r \in Reqs :
         LET q == req[r] IN
         (q.kind = "GET say" /\ q.errors = <<>> /\ Done(q)) =>
           IF q.fault THEN q.status = 0 /\ q.reply = ""
                      ELSE q.status = 200 /\ q.reply = "response")
  /\ [][\A r \in Reqs : Done(req[r]) => req'[r] = req[r]]_vars

C14_Witness ==
  \E r1, r2 \in Reqs :
    /\ req[r1].kind = "GET say" /\ req[r2].kind = "GET say"
    /\ req[r1].raw.params = [keyword |-> <<"h", "i">>]
    /\ req[r2].raw.params = [keyword |-> <<"h", "i">>]
    /\ Done(req[r1]) /\ req[r1].fault /\ req[r1].status = 0
    /\ Done(req[r2]) /\ ~req[r2].fault /\ req[r2].status = 200

\* C15: of two PUTs on one key that overlap (the second was in flight when
\* the first one's upsert ran) and find the key absent, with no store fault,
\* the one whose upsert ran first answers 201 "Company added", the other 200
\* "Company updated", and the key has one row.
C15_ConcurrentUpserts ==
  \A r1, r2 \in Reqs :
    LET q1 == req[r1]
        q2 == req[r2]
    IN  ( /\ r1 # r2
          /\ q1.kind = "PUT" /\ q2.kind = "PUT"
          /\ q1.params = q2.params
          /\ Done(q1) /\ q1.executed /\ ~q1.fault /\ ~q1.existed
          /\ Done(q2) /\ q2.executed /\ ~q2.fault
          /\ r2 \in q1.peers )
        => /\ q1.status = 201 /\ q1.reply = "Company added"
           /\ q2.status = 200 /\ q2.reply = "Company updated"
           /\ Cardinality({row \in company :
                             row.COMPANY_ID = q1.params.companyId}) = 1

\* The values a company request binds to its statement.
BoundId(q) ==
  IF q.kind = "POST" THEN q.body.companyId ELSE q.params.companyId

\* C16: every value a POST, PATCH or PUT binds to its statement is within
\* the data model's bounds: companyId 1-6 characters, companyName and
\* companyCity 1-25 characters.
C16_BoundValuesInRange ==
  \A r \in Reqs :
    LET q == req[r] IN
    (q.kind \in {"POST", "PATCH", "PUT"} /\ (q.pc = "querying" \/ q.executed)) =>
      /\ InRange(BoundId(q), 1, 6)
      /\ \A f \in {"companyName", "companyCity"} :
           truthy(q.body, f) => InRange(q.body[f], 1, 25)

====
